---- MODULE Spec2Model ----
(***************************************************************************)
(* A model of the aerosol resource store (Aero): the type-keyed map of     *)
(* slots, the poll core shared by the blocking and the cooperative waiting *)
(* paths, and the lazy construction protocol built on top of it.           *)
(*                                                                         *)
(* Callers are blocking threads (sync API) and cooperative tasks (async    *)
(* API).  Every step that takes the store's RwLock is one atomic action;   *)
(* user constructors, parking and awaiting happen between actions, with    *)
(* the lock released.                                                      *)
(***************************************************************************)
EXTENDS Integers, Sequences, FiniteSets, TLC

\* ------------------------------------------------------------------ bounds

\* Number of top-level store calls issued over a run, by all callers together.
MaxCalls == 4

\* Number of times an executor hands a task a waker unlike the one before.
MaxWakers == 2

\* ------------------------------------------------------------- population

Threads == {"t1", "t2"}
Tasks   == {"k1"}
Callers == Threads \cup Tasks

\* The resource types of a run, named after the shapes of the repository's tests:
\*   "A"  constructor cannot fail (Error = Infallible, the tests' Dummy); it is
\*        only ever constructed, never inserted eagerly
\*   "B"  constructor may return Err; may also be inserted eagerly
\*   "C"  constructor obtains "C" itself (the tests' DummyCyclic)
\*   "P", "Q"  constructors obtain each other (A -> B -> A of the crate docs)
\*   "R"  constructor obtains "A" (the tests' DummyRecursive)
\*   "S"  Arc<DummyImpl> of the tests: DummyImpl's after_construction inserts
\*        the facade "F" when it is handed an Arc<DummyImpl>
\*   "F"  Arc<dyn DummyTrait>, the facade, inserted only by that hook
\*   "H"  after_construction may return Err
\*   "G"  after_construction obtains "G" itself
\*   "M"  a Constructible whose constructor calls the blocking obtain of "M"
\*        itself (DummyCyclic of the sync tests), also when a task constructs
\*        it through impl<T: Constructible> AsyncConstructible for T
\*   "E"  constructor obtains "A" and may then return Err; its
\*        after_construction inserts the facade "F" and may then return Err
Types       == {"A", "B", "C", "P", "Q", "R", "S", "F", "H", "G", "M", "E"}
Fallible    == {"B", "E"}
Insertable  == {"B"}

\* The resources a constructor obtains, in order, before it returns.
Deps(t) == CASE t = "C" -> <<"C">>
             [] t = "P" -> <<"Q">>
             [] t = "Q" -> <<"P">>
             [] t = "R" -> <<"A">>
             [] t = "M" -> <<"M">>
             [] t = "E" -> <<"A">>
             [] OTHER   -> <<>>

\* The types whose constructor uses the blocking API whoever runs it.
SyncCtor == {"M"}

\* The types whose after_construction is not the default Ok(()).
Hooked       == {"S", "H", "G", "E"}
HookFallible == {"H", "E"}

\* The types made by impl_constructible! (Arc<T>, Mutex<T>, RwLock<T>) and the
\* type they wrap; "I" is DummyImpl.
Shared   == {"S"}
Inner(t) == "I"

\* The values after_construction is handed in the course of
\* <T as IndirectlyConstructible>::construct, in order.  For a Constructible T
\* (the blanket impl) construct runs Constructible::construct and then the hook
\* on &res, the bare value.  For a wrapper of T (impl_constructible!) construct
\* runs $t::construct, which is the former with its hook, wraps the result
\* and then runs the hook of $t on the wrapped value.
RECURSIVE Forms(_)
Forms(t) == IF t \in Shared THEN Append(Forms(Inner(t)), "shared") ELSE <<"bare">>

\* The calls the hook of t makes on the store when handed a value of the given
\* form: DummyImpl's hook inserts the facade if this.downcast_ref::<Arc<Self>>()
\* succeeds.
HookCalls(t, form) ==
    CASE t = "S" /\ form = "shared" -> << <<"insert", "F">> >>
      [] t = "G" -> << <<"obtain", "G">> >>
      [] t = "E" -> << <<"insert", "F">> >>
      [] OTHER -> <<>>

\* AfterCtor, had construct returned without calling after_construction.
AfterCtor_NoHook(t, ok) == IF ok THEN "fill" ELSE "clear"

\* Where construct goes on when Constructible::construct has returned: the ?
\* returns an Err at once; after an Ok after_construction is called.  For a
\* type that keeps the default hook, which returns Ok(()) and touches nothing,
\* the hook is part of the constructor's step.
AfterCtor(t, ok) == IF ~ok THEN "clear" ELSE IF t \in Hooked THEN "hook" ELSE "fill"

VARIABLES
    items,      \* InnerAero.items: type -> slot (Absent when the key is missing)
    stack,      \* per caller: the frames of the store calls it is executing
    token,      \* per thread: the park token (set by Thread::unpark)
    sched,      \* per task: scheduled for a poll (set by Waker::wake)
    ctorCount,  \* per type: how many times T::construct has been invoked
    last,       \* the call that returned (or panicked) in the last step, if any
    left,       \* number of top-level calls the callers may still issue
    menu,       \* the <<method, type>> pairs the callers of this run invoke
    held,       \* per caller: the handle it holds (its Arc and required list)
    lock,       \* per caller: the guard of the store's RwLock it holds, if any
    waker,      \* per task: which waker the executor hands to its polls
    woken       \* the waiter handles woken by the last step, in wake order

vars == <<items, stack, token, sched, ctorCount, last, left, menu, held, lock, waker, woken>>

\* ------------------------------------------------------------ slot.rs

NoValue  == [by |-> "none", n |-> 0]
NoWaiter == [kind |-> "None", id |-> "none", gen |-> 0]

\* ThreadOrWaker: thread::current() for a thread, cx.waker().clone() for a
\* task, the waker its executor hands to the poll.
Current(c) == IF c \in Threads THEN [kind |-> "Thread", id |-> c, gen |-> 0]
                               ELSE [kind |-> "Waker", id |-> c, gen |-> waker[c]]

\* The thread that polls task c, as thread::current() names it.
Worker(c) == [kind |-> "Thread", id |-> c, gen |-> 0]

\* The caller as a call with the frames rest below it names itself: a call
\* made by a blocking constructor that a task runs passes thread::current to
\* poll_for_slot, every other call of a task passes cx.waker().  The worker
\* of a task is parked only by such a call.
Who(c, rest) ==
    IF c \in Tasks /\ rest # <<>> /\ rest[1].pc = "construct" /\ rest[1].ty \in SyncCtor
    THEN Worker(c)
    ELSE Current(c)

\* eq, had no waiter ever compared equal to an owner.
eq_Never(a, b) == FALSE

\* impl PartialEq for ThreadOrWaker: thread ids equal, or will_wake; never
\* across kinds.
eq(a, b) ==
    CASE a.kind = "Thread" /\ b.kind = "Thread" -> a.id = b.id
      [] a.kind = "Waker"  /\ b.kind = "Waker"  -> a.id = b.id /\ a.gen = b.gen
      [] OTHER -> FALSE

\* enum Slot
Absent == [st |-> "Absent", val |-> NoValue, owner |-> NoWaiter, waiting |-> <<>>]
Filled(v) == [st |-> "Filled", val |-> v, owner |-> NoWaiter, waiting |-> <<>>]
Placeholder(o, ws) == [st |-> "Placeholder", val |-> NoValue, owner |-> o, waiting |-> ws]

\* Slot::desc: Filled(clone) or Placeholder.
desc(slot) == IF slot.st = "Filled" THEN [d |-> "Filled", val |-> slot.val]
                                    ELSE [d |-> "Placeholder", val |-> NoValue]

Range(s) == {s[i] : i \in 1..Len(s)}

\* DropSlot, had the drop woken only the first waiter.
DropSlot_First(slot) ==
    IF slot.st = "Placeholder" /\ slot.waiting # <<>> THEN <<Head(slot.waiting)>> ELSE <<>>

\* impl Drop for Slot: the waiters a dropped slot wakes, in drain order.
DropSlot(slot) == IF slot.st = "Placeholder" THEN slot.waiting ELSE <<>>

\* ThreadOrWaker::unpark_or_wake applied to every element of ws: a Thread is
\* unparked (its token is set), a Waker is woken (its task is scheduled).
Unparked(tok, ws) ==
    [t \in Threads |-> tok[t] \/ \E i \in 1..Len(ws) : ws[i].kind = "Thread" /\ ws[i].id = t]
\* Woken, had unpark_or_wake done nothing for a Waker.
Woken_Not(sch, ws) == sch

\* Waker::wake: the task is scheduled when the waker is the one of its most
\* recent poll.  A waker the task has since replaced promises nothing (an
\* executor that polls the task all the same makes a spurious poll).
Woken(sch, ws) ==
    [k \in Tasks |-> sch[k] \/ \E i \in 1..Len(ws) :
                                  ws[i].kind = "Waker" /\ ws[i].id = k /\ ws[i].gen = waker[k]]

\* ------------------------------------------------------------ handles

\* An Aero<R>: the Arc<RwLock<InnerAero>> it holds and its required list R
\* (a PhantomData, here the set of its members).
Handle(p, R) == [inner |-> p, R |-> R]

\* Aero::new(): a handle on a new, empty store, with the empty required list.
New == Handle("store", {})

\* Clone for Aero: inner: self.inner.clone().
clone(h) == Handle(h.inner, h.R)

\* Retype, had the new handle been given a store of its own.
Retype_Fresh(h, R) == Handle("fresh", R)

\* Aero { inner: self.inner, phantom: PhantomData }, the expression by which
\* with, into, try_into, try_assert, try_with_constructed and
\* try_construct_remaining make the handle they return; as_ref and try_as_ref
\* transmute the reference to the same effect.
Retype(h, R) == Handle(h.inner, R)

\* The map a handle reads and writes: items for a handle on the store of this
\* run, an empty map for a handle on any other store.
StoreOf(h) == IF h.inner = New.inner THEN items ELSE [t \in DOMAIN items |-> Absent]

\* ------------------------------------------------------------ the lock

\* self.inner.read() / self.inner.write() by caller c: the guard it then holds.
read(lk, c)  == [lk EXCEPT ![c] = "read"]
write(lk, c) == [lk EXCEPT ![c] = "write"]

\* drop_guard, had the guard been leaked instead of dropped.
drop_guard_Forget(lk, c) == lk

\* The guard of c is dropped: a temporary at the end of its statement, the
\* local `guard` of poll_for_slot when the function returns or unwinds.
drop_guard(lk, c) == [lk EXCEPT ![c] = "none"]

\* One locked section of a store operation run by c: the lock is taken when
\* no guard excludes it (a writer needs the lock free, a reader needs it free
\* of writers), the operation runs, and the guard is dropped before the
\* operation returns.
Section(c, mode) ==
    /\ \A d \in Callers : IF mode = "write" THEN lock[d] = "none" ELSE lock[d] # "write"
    /\ lock' = drop_guard(IF mode = "write" THEN write(lock, c) ELSE read(lock, c), c)

\* ------------------------------------------------------------ frames

\* A call in progress: the method, its type parameter, where it stands, its
\* wait_index (-1 for None), the value its constructor is producing, and how
\* many of the constructor's dependencies have been obtained.  seen holds the
\* forms after_construction has been handed so far by this call, the last one
\* being that of the invocation in progress when the call is in the hook, and
\* k then counts the store calls that invocation has made.
Frame(op, t, pc) ==
    [op |-> op, ty |-> t, pc |-> pc, idx |-> -1, val |-> NoValue, k |-> 0,
     list |-> <<>>, seen |-> <<>>]

\* A call that takes a resource list R2 (into, try_into, try_construct_remaining):
\* list holds the members it goes through, k how many it has gone through.
FrameL(op, list, pc) == [Frame(op, "none", pc) EXCEPT !.list = list]

Busy(c) == stack[c] # <<>>
Top(c)  == Head(stack[c])
At(c, pc) == Busy(c) /\ Top(c).pc = pc

\* InsertPlaceholder, had try_init called wait_for_slot(false).
InsertPlaceholder_ObtainOnly(op) == op = "obtain"

\* wait_for_slot(true) / wait_for_slot_async(true) is used by obtain and init
\* (and by try_with_constructed, which calls try_init).
InsertPlaceholder(op) == op \in {"obtain", "init", "with_constructed"}

\* What is noted of a call that ends: who made it, the method and type, what
\* it returned (or the panic that ended it), and the wait index it held.
Event(c, f, ret, val) ==
    [c |-> c, op |-> f.op, ty |-> f.ty, ret |-> ret, val |-> val, idx |-> f.idx,
     list |-> f.list, seen |-> f.seen]
NoEvent ==
    [c |-> "none", op |-> "none", ty |-> "none", ret |-> "none", val |-> NoValue, idx |-> -1,
     list |-> <<>>, seen |-> <<>>]

TypeOK ==
    /\ \A t \in Types : items[t].st \in {"Absent", "Filled", "Placeholder"}
    /\ \A c \in Callers : \A i \in 1..Len(stack[c]) : stack[c][i].ty \in Types \cup {"none"}
    /\ \A c \in Callers : held[c].R \subseteq Types
    /\ \A c \in Callers : lock[c] \in {"none", "read", "write"}
    /\ \A k \in Tasks : waker[k] \in 0..MaxWakers
    /\ left \in 0..MaxCalls

Ops(t) == {"obtain", "init", "get", "has", "with_constructed", "try_assert", "assert"}
          \cup (IF t \in Insertable THEN {"insert", "with"} ELSE {})

\* Every public method on the resources without dependencies.
BaseMenu == {m \in {"obtain", "init", "get", "has", "insert"} \X {"A", "B"} : m[1] \in Ops(m[2])}

Fresh ==
    /\ items = [t \in Types |-> Absent]
    /\ stack = [c \in Callers |-> <<>>]
    /\ token = [t \in Threads |-> FALSE]
    /\ sched = [k \in Tasks |-> FALSE]
    /\ ctorCount = [t \in Types |-> 0]
    /\ last = NoEvent
    /\ left = MaxCalls
    /\ held = [c \in Callers |-> clone(New)]
    /\ lock = [c \in Callers |-> "none"]
    /\ waker = [k \in Tasks |-> 0]
    /\ woken = <<>>

\* Aero::new(), shared by callers that use the resources without dependencies.
Init == Fresh /\ menu = BaseMenu

\* ------------------------------------------------------------ state.rs

\* has, had it counted a placeholder as present.
has_Present(slot) == slot.st # "Absent"

\* Aero::has: matches!(items.get(), Some(Slot::Filled(_))).
has(slot) == slot.st = "Filled"

\* insert, had it replaced whatever the map held.
insert_Overwrite(slot, v) == [ret |-> "Ok", slot |-> Filled(v)]

\* Aero::insert: Entry::Occupied => duplicate_resource(), Entry::Vacant =>
\* insert(Slot::Filled(value)).
insert(slot, v) ==
    IF slot.st # "Absent" THEN [ret |-> "Duplicate", slot |-> slot]
                          ELSE [ret |-> "Ok", slot |-> Filled(v)]

\* Aero::poll_for_slot, one call under the write lock.  idx is *wait_index
\* (-1 for None), current is thread_or_waker_fn().into().  The result names
\* what the call returns (or the panic it raises), the slot it leaves in the
\* map and the wait index it leaves in the caller.

\* poll_filled, had a Filled slot been taken for a missing one.
poll_filled_Miss(slot, idx) ==
    [ret |-> "ReadyNone", val |-> NoValue, slot |-> slot, idx |-> idx]

\* The arm Slot::Filled(x) => Poll::Ready(Some(x.clone())).
poll_filled(slot, idx) ==
    [ret |-> "ReadySome", val |-> slot.val, slot |-> slot, idx |-> idx]

\* poll_placeholder, had it sent a caller that finds a placeholder off to
\* construct as well instead of queueing it.
poll_placeholder_NoWait(slot, idx, current) ==
    [ret |-> "ReadyNone", val |-> NoValue, slot |-> Placeholder(current, <<>>), idx |-> idx]

\* The arm Slot::Placeholder { owner, waiting }: the cycle check, then the
\* caller's entry is written at its wait index (an index past the end of the
\* Vec panics) or pushed.
poll_placeholder(slot, idx, current) ==
    IF eq(current, slot.owner)
    THEN [ret |-> "Cycle", val |-> NoValue, slot |-> slot, idx |-> idx]
    ELSE IF idx # -1
         THEN IF idx < Len(slot.waiting)
              THEN [ret |-> "Pending", val |-> NoValue,
                    slot |-> [slot EXCEPT !.waiting[idx + 1] = current],
                    idx |-> idx]
              ELSE [ret |-> "IndexPanic", val |-> NoValue,
                    slot |-> slot, idx |-> idx]
         ELSE [ret |-> "Pending", val |-> NoValue,
               slot |-> [slot EXCEPT !.waiting = Append(@, current)],
               idx |-> Len(slot.waiting)]

\* The arm Entry::Vacant(vac).
poll_vacant(slot, idx, current, insert_placeholder) ==
    [ret |-> "ReadyNone", val |-> NoValue,
     slot |-> IF insert_placeholder THEN Placeholder(current, <<>>) ELSE slot,
     idx |-> idx]

poll_for_slot(slot, idx, current, insert_placeholder) ==
    CASE slot.st = "Filled"      -> poll_filled(slot, idx)
      [] slot.st = "Placeholder" -> poll_placeholder(slot, idx, current)
      [] OTHER                   -> poll_vacant(slot, idx, current, insert_placeholder)

\* Aero::fill_placeholder: items.insert(Slot::Filled(value)); the slot that was
\* in the map is returned by the insert and dropped.
fill_placeholder(slot, v) == [slot |-> Filled(v), dropped |-> DropSlot(slot)]

\* clear_placeholder, had it left the placeholder in the map.
clear_placeholder_Keep(slot) == [slot |-> slot, dropped |-> <<>>]

\* Aero::clear_placeholder: items.remove::<Slot<T>>(); the removed slot is
\* dropped.
clear_placeholder(slot) == [slot |-> Absent, dropped |-> DropSlot(slot)]

\* ------------------------------------------------------------ call frames

\* Typed, had a call that retypes given the new handle whatever it returned.
Typed_Unchecked(h, f, ret) ==
    CASE f.op \in {"with", "try_assert", "assert", "with_constructed"} ->
              Retype(clone(h), h.R \cup {f.ty})
      [] f.op \in {"into", "try_into"} -> Retype(clone(h), Range(f.list))
      [] f.op = "remaining" -> Retype(clone(h), h.R \cup Range(f.list))
      [] OTHER -> h

\* Typed, had no call ever changed the required list.
Typed_NoGain(h, f, ret) == h

\* The handle a caller has after its call f on (a clone of) handle h has
\* returned ret: the handle typed with the new required list when a call
\* that retypes returned Ok, the handle it had otherwise.
Typed(h, f, ret) ==
    IF ret # "Ok" THEN h
    ELSE CASE f.op \in {"with", "try_assert", "assert", "with_constructed"} ->
                 Retype(clone(h), h.R \cup {f.ty})
           [] f.op \in {"into", "try_into"} -> Retype(clone(h), Range(f.list))
           [] f.op = "remaining" -> Retype(clone(h), h.R \cup Range(f.list))
           [] OTHER -> h

\* The axum extractors Dep<T> and Obtain<T>.
Extractors == {"Dep", "Obtain"}

\* Extracts, had Dep been written with try_obtain_async.
Extracts_Obtain(op) == "obtain"

\* The store call from_request_parts awaits: try_get_async for Dep,
\* try_obtain_async for Obtain.
Extracts(op) == IF op = "Dep" THEN "get" ELSE "obtain"

\* What from_request_parts makes of the result of that call:
\* .map(Self).ok_or_else(DependencyError::does_not_exist::<T>) for Dep,
\* .map(Self).map_err(DependencyError::failed_to_construct::<T>) for Obtain.
from_request_parts(op, ret) ==
    CASE op = "Dep" /\ ret = "Some" -> "Ok"
      [] op = "Dep" /\ ret = "None" -> "DoesNotExist"
      [] op = "Obtain" /\ ret = "Err" -> "FailedToConstruct"
      [] OTHER -> ret

\* A call of c returns to its caller.  rest holds the frames below the one
\* that returns, the topmost being the constructor that made the call, which
\* has now obtained one more dependency; the return is noted in last.
Finish(c, f, rest, ret, val) ==
    IF rest # <<>> /\ Head(rest).op = "remaining" /\ ret = "Err"
    THEN \* aero.try_init::<H>().map_err(Into::into)? in HCons::construct: the
         \* error of a member is returned by try_construct_remaining at once.
         /\ stack' = [stack EXCEPT ![c] = Tail(rest)]
         /\ last' = Event(c, Head(rest), "Err", NoValue)
         /\ UNCHANGED held
    ELSE IF rest # <<>> /\ Head(rest).op \in Extractors
    THEN \* from_request_parts maps the result and returns, without another await.
         /\ stack' = [stack EXCEPT ![c] = Tail(rest)]
         /\ last' = Event(c, Head(rest), from_request_parts(Head(rest).op, ret), val)
         /\ UNCHANGED held
    ELSE /\ stack' = [stack EXCEPT ![c] =
                         IF rest = <<>> THEN rest
                         ELSE <<[Head(rest) EXCEPT !.k = @ + 1]>> \o Tail(rest)]
         /\ last' = Event(c, f, ret, val)
         /\ held' = [held EXCEPT ![c] = Typed(@, f, ret)]

\* A panic unwinds every frame of the caller; no frame has a drop guard for
\* its placeholder.
Panic(c, f, what) ==
    /\ stack' = [stack EXCEPT ![c] = <<>>]
    /\ last' = Event(c, f, what, NoValue)
    /\ UNCHANGED held

\* The call goes on at pc.
Goto(c, f, rest, pc) ==
    /\ stack' = [stack EXCEPT ![c] = <<[f EXCEPT !.pc = pc]>> \o rest]
    /\ last' = NoEvent
    /\ UNCHANGED held

\* Some(x) of try_get, Ok(x) of try_obtain, Ok(()) of try_init.
Got(op, v) == IF op = "get" THEN [ret |-> "Some", val |-> v]
              ELSE IF op \in {"init", "with_constructed"} THEN [ret |-> "Ok", val |-> NoValue]
              ELSE [ret |-> "Ok", val |-> v]

\* try_get_slot (read lock) at the head of try_get / try_obtain and their
\* async forms, and the match on its result.
try_get_slot(c, f, rest) ==
    /\ LET s == items[f.ty]
       IN IF s.st = "Absent"
          THEN IF f.op = "get" THEN Finish(c, f, rest, "None", NoValue)
                               ELSE Goto(c, f, rest, "poll")
          ELSE IF desc(s).d = "Filled"
               THEN Finish(c, f, rest, Got(f.op, desc(s).val).ret, Got(f.op, desc(s).val).val)
               ELSE Goto(c, f, rest, "poll")
    /\ woken' = <<>>
    /\ UNCHANGED <<items, token, sched, ctorCount>>
    /\ Section(c, "read")
    /\ UNCHANGED waker

\* One iteration of wait_for_slot's loop, or one poll of WaitForSlot: a call
\* of poll_for_slot and the match on its result.
wait_for_slot(c, f, rest) ==
    /\ LET r == poll_for_slot(items[f.ty], f.idx, Who(c, rest), InsertPlaceholder(f.op))
       IN /\ items' = [items EXCEPT ![f.ty] = r.slot]
          /\ CASE r.ret = "ReadySome" ->
                    Finish(c, f, rest, Got(f.op, r.val).ret, Got(f.op, r.val).val)
               [] r.ret = "ReadyNone" ->
                    IF InsertPlaceholder(f.op)
                    THEN Goto(c, [f EXCEPT !.val = [by |-> "ctor", n |-> ctorCount[f.ty] + 1]],
                              rest, "construct")
                    ELSE Finish(c, f, rest, "None", NoValue)
               [] r.ret = "Pending" ->
                    /\ stack' = [stack EXCEPT ![c] =
                                    <<[f EXCEPT !.pc = "parked", !.idx = r.idx]>> \o rest]
                    /\ last' = NoEvent
                    /\ UNCHANGED held
               [] OTHER -> Panic(c, f, r.ret)
          \* None from wait_for_slot(true): T::construct is invoked next.
          /\ ctorCount' = IF r.ret = "ReadyNone" /\ InsertPlaceholder(f.op)
                          THEN [ctorCount EXCEPT ![f.ty] = @ + 1]
                          ELSE ctorCount
    /\ woken' = <<>>
    /\ UNCHANGED <<token, sched>>
    /\ Section(c, "write")
    /\ UNCHANGED waker

\* Aero::has called by c.
has_call(c, f, rest) ==
    /\ Finish(c, f, rest, IF has(items[f.ty]) THEN "True" ELSE "False", NoValue)
    /\ woken' = <<>>
    /\ UNCHANGED <<items, token, sched, ctorCount>>
    /\ Section(c, "read")
    /\ UNCHANGED waker

\* Aero::insert called by c with a value of its own making; Aero::with is
\* insert followed by the retyping of the handle.
insert_call(c, f, rest) ==
    /\ LET r == insert(items[f.ty], [by |-> c, n |-> 0])
       IN /\ items' = [items EXCEPT ![f.ty] = r.slot]
          /\ IF r.ret = "Ok" THEN Finish(c, f, rest, "Ok", NoValue)
                             ELSE Panic(c, f, r.ret)
    /\ woken' = <<>>
    /\ UNCHANGED <<token, sched, ctorCount>>
    /\ Section(c, "write")
    /\ UNCHANGED waker

\* Aero::try_assert / assert called by c: Ok with the retyped handle when
\* has::<T>() holds, else Err(self) from try_assert and the missing-resource
\* panic from assert.
assert_call(c, f, rest) ==
    /\ IF has(items[f.ty]) THEN Finish(c, f, rest, "Ok", NoValue)
       ELSE IF f.op = "assert" THEN Panic(c, f, "Missing")
       ELSE Finish(c, f, rest, "Err", NoValue)
    /\ woken' = <<>>
    /\ UNCHANGED <<items, token, sched, ctorCount>>
    /\ Section(c, "read")
    /\ UNCHANGED waker

\* Where each public method first touches the store: try_obtain(_async) and
\* try_get(_async) start with try_get_slot, try_init(_async) goes straight to
\* wait_for_slot(true).
Enter(c, f, rest) ==
    CASE f.op \in {"obtain", "get"} -> try_get_slot(c, f, rest)
      [] f.op \in {"init", "with_constructed"} -> wait_for_slot(c, f, rest)
      [] f.op = "has" -> has_call(c, f, rest)
      [] f.op \in {"try_assert", "assert"} -> assert_call(c, f, rest)
      [] OTHER -> insert_call(c, f, rest)

\* ------------------------------------------------------------ actions

\* A caller invokes a public method and runs it up to the end of its first
\* locked section: try_obtain / try_init / try_get on a thread, their _async
\* forms on a task, has or insert on either.
Call(c, op, t) ==
    /\ ~Busy(c)
    /\ left > 0
    /\ <<op, t>> \in menu
    /\ left' = left - 1
    /\ Enter(c, Frame(op, t, "enter"), <<>>)
    /\ UNCHANGED menu

\* wait_for_slot(insert_placeholder) entered after try_get_slot saw no value,
\* or re-entered after a wake-up.
PollForSlot(c) ==
    /\ At(c, "poll")
    /\ wait_for_slot(c, Top(c), Tail(stack[c]))
    /\ UNCHANGED <<left, menu>>

\* safe_park returns because the thread's token is set (it is consumed).
ParkReturn(c) ==
    /\ c \in Threads
    /\ At(c, "parked")
    /\ token[c]
    /\ token' = [token EXCEPT ![c] = FALSE]
    /\ Goto(c, Top(c), Tail(stack[c]), "poll")
    /\ woken' = <<>>
    /\ UNCHANGED <<items, sched, ctorCount, left, menu>>
    /\ UNCHANGED <<lock, waker>>

\* The executor polls a task whose waker was woken.
TaskPolled(c) ==
    /\ c \in Tasks
    /\ At(c, "parked")
    /\ sched[c]
    /\ sched' = [sched EXCEPT ![c] = FALSE]
    /\ Goto(c, Top(c), Tail(stack[c]), "poll")
    /\ woken' = <<>>
    /\ UNCHANGED <<items, token, ctorCount, left, menu>>
    /\ UNCHANGED <<lock, waker>>

\* thread::park may return spuriously; an executor may poll a future that
\* nobody woke.
SpuriousWake(c) ==
    /\ At(c, "parked")
    /\ IF c \in Threads THEN ~token[c] ELSE ~sched[c]
    /\ Goto(c, Top(c), Tail(stack[c]), "poll")
    /\ woken' = <<>>
    /\ UNCHANGED <<items, token, sched, ctorCount, left, menu>>
    /\ UNCHANGED <<lock, waker>>

\* ------------------------------------------------ (a)sync_constructible.rs

\* The running constructor of the top frame obtains its next dependency:
\* aero.obtain::<D>() on a thread, aero.obtain_async::<D>().await on a task.
ConstructCall(c) ==
    /\ At(c, "construct")
    /\ Top(c).k < Len(Deps(Top(c).ty))
    /\ Enter(c, Frame("obtain", Deps(Top(c).ty)[Top(c).k + 1], "enter"), stack[c])
    /\ UNCHANGED <<left, menu>>

\* Constructible::construct, called by T::construct(self.as_ref()) outside
\* the lock, returns: Ok(x), x being the value this invocation makes (the n-th
\* invocation of T's constructor makes the n-th value), or Err(e).  After an
\* Ok the hook is called with the first form.
Construct(c) ==
    /\ At(c, "construct")
    /\ LET f == Top(c)
       IN /\ f.k = Len(Deps(f.ty))
          /\ \E ok \in (IF f.ty \in Fallible THEN BOOLEAN ELSE {TRUE}) :
                stack' = [stack EXCEPT ![c] =
                    <<[f EXCEPT !.pc = AfterCtor(f.ty, ok),
                                !.val = IF ok THEN f.val ELSE NoValue,
                                !.k = IF AfterCtor(f.ty, ok) = "hook" THEN 0 ELSE @,
                                !.seen = IF AfterCtor(f.ty, ok) = "hook"
                                         THEN <<Forms(f.ty)[1]>> ELSE @]>>
                    \o Tail(stack[c])]
    /\ woken' = <<>>
    /\ last' = NoEvent
    /\ UNCHANGED <<items, token, sched, ctorCount, left, menu, held>>
    /\ UNCHANGED <<lock, waker>>

\* The running after_construction of the top frame makes its next call on
\* the store (aero.insert, aero.obtain).
HookCall(c) ==
    /\ At(c, "hook")
    /\ LET f == Top(c)
           calls == HookCalls(f.ty, f.seen[Len(f.seen)])
       IN /\ f.k < Len(calls)
          /\ Enter(c, Frame(calls[f.k + 1][1], calls[f.k + 1][2], "enter"), stack[c])
    /\ UNCHANGED <<left, menu>>

\* after_construction returns.  An Err is returned by construct at once (the
\* ? after the hook); after an Ok construct goes on to the hook on the next
\* form, if there is one, and returns Ok(res) otherwise.
HookReturn(c) ==
    /\ At(c, "hook")
    /\ LET f == Top(c)
           calls == HookCalls(f.ty, f.seen[Len(f.seen)])
       IN /\ f.k = Len(calls)
          /\ \E ok \in (IF f.ty \in HookFallible THEN BOOLEAN ELSE {TRUE}) :
                stack' = [stack EXCEPT ![c] =
                    <<IF ~ok THEN [f EXCEPT !.pc = "clear", !.val = NoValue]
                      ELSE IF Len(f.seen) < Len(Forms(f.ty))
                           THEN [f EXCEPT !.k = 0,
                                          !.seen = Append(@, Forms(f.ty)[Len(f.seen) + 1])]
                           ELSE [f EXCEPT !.pc = "fill"]>>
                    \o Tail(stack[c])]
    /\ woken' = <<>>
    /\ last' = NoEvent
    /\ UNCHANGED <<items, token, sched, ctorCount, left, menu, held>>
    /\ UNCHANGED <<lock, waker>>

\* The Ok arm of try_obtain / try_init: fill_placeholder, then return.
FillPlaceholder(c) ==
    /\ At(c, "fill")
    /\ LET f == Top(c)
           r == fill_placeholder(items[f.ty], f.val)
       IN /\ items' = [items EXCEPT ![f.ty] = r.slot]
          /\ token' = Unparked(token, r.dropped)
          /\ sched' = Woken(sched, r.dropped)
          /\ woken' = r.dropped
          /\ Finish(c, f, Tail(stack[c]), Got(f.op, f.val).ret, Got(f.op, f.val).val)
    /\ UNCHANGED <<ctorCount, left, menu>>
    /\ Section(c, "write")
    /\ UNCHANGED waker

\* The Err arm of try_obtain / try_init: clear_placeholder, then return Err.
ClearPlaceholder(c) ==
    /\ At(c, "clear")
    /\ LET f == Top(c)
           r == clear_placeholder(items[f.ty])
       IN /\ items' = [items EXCEPT ![f.ty] = r.slot]
          /\ token' = Unparked(token, r.dropped)
          /\ sched' = Woken(sched, r.dropped)
          /\ woken' = r.dropped
          /\ Finish(c, f, Tail(stack[c]), "Err", NoValue)
    /\ UNCHANGED <<ctorCount, left, menu>>
    /\ Section(c, "write")
    /\ UNCHANGED waker

\* The steps of callers that only ever resume when they were woken.
NextWoken ==
    \E c \in Callers :
        \/ \E t \in Types : \E op \in Ops(t) : Call(c, op, t)
        \/ PollForSlot(c)
        \/ ParkReturn(c)
        \/ TaskPolled(c)
        \/ Construct(c)
        \/ FillPlaceholder(c)
        \/ ClearPlaceholder(c)

Next ==
    \/ NextWoken
    \/ \E c \in Callers : SpuriousWake(c)

Spec == Init /\ [][Next]_vars

\* The runs without spurious wake-ups.
SpecWoken == Init /\ [][NextWoken]_vars

\* The executor polls a suspended task with a waker unlike the one of its
\* last poll (will_wake is false between the two), whether or not the old one
\* was woken.
Repolled(c) ==
    /\ c \in Tasks
    /\ At(c, "parked")
    /\ waker[c] < MaxWakers
    /\ waker' = [waker EXCEPT ![c] = @ + 1]
    /\ sched' = [sched EXCEPT ![c] = FALSE]
    /\ Goto(c, Top(c), Tail(stack[c]), "poll")
    /\ woken' = <<>>
    /\ UNCHANGED <<items, token, ctorCount, left, menu, lock>>

\* The runs in which threads and a task initialize or get the fallible
\* resource and the task's waker changes between polls.
WakerMenu == {<<"init", "B">>, <<"get", "B">>}

InitWaker == Fresh /\ menu = WakerMenu

NextWaker ==
    \/ NextWoken
    \/ \E c \in Callers : Repolled(c)

SpecWaker == InitWaker /\ [][NextWaker]_vars

\* What a caller does next of its own accord on the resources without
\* dependencies: it polls, returns from park when its token is set, is
\* polled when its waker was woken, and its constructor returns, followed
\* by fill_placeholder or clear_placeholder.
Goes(c) ==
    \/ PollForSlot(c)
    \/ ParkReturn(c)
    \/ TaskPolled(c)
    \/ Construct(c)
    \/ FillPlaceholder(c)
    \/ ClearPlaceholder(c)

\* The runs on the fallible resource, spurious wake-ups included, in which
\* every caller that can go on does so in the end; a spurious wake-up may
\* happen at any time but none ever has to.
SpecSpurious == InitWaker /\ [][Next]_vars /\ \A c \in Callers : WF_vars(Goes(c))

\* ---------------------------------------------- cancellation, destruction

\* The runs whose constructors obtain other resources: a fallible resource,
\* the self-cyclic one and the two that obtain each other.
NestMenu == {<<"obtain", "B">>, <<"obtain", "C">>, <<"obtain", "P">>}

InitNest == Fresh /\ menu = NestMenu

\* A suspended task is dropped by its executor: its futures (WaitForSlot and
\* the async fns above it) are dropped.  WaitForSlot has no Drop impl, so the
\* entry it registered stays in the waiters list.
CancelWait(c) ==
    /\ c \in Tasks
    /\ At(c, "parked")
    /\ stack' = [stack EXCEPT ![c] = <<>>]
    /\ last' = Event(c, Top(c), "Cancelled", NoValue)
    /\ woken' = <<>>
    /\ UNCHANGED <<items, token, sched, ctorCount, left, menu, held>>
    /\ UNCHANGED <<lock, waker>>

RECURSIVE Orders(_)
\* The orders in which the slots of the types S can be dropped.
Orders(S) == IF S = {} THEN {<<>>}
             ELSE UNION {{<<t>> \o o : o \in Orders(S \ {t})} : t \in S}

RECURSIVE DropAll(_)
\* The waiters woken by dropping the slots of the types in order, in wake order.
DropAll(order) == IF order = <<>> THEN <<>>
                  ELSE DropSlot(items[Head(order)]) \o DropAll(Tail(order))

\* The last handle of the store goes away while no call is in progress (every
\* call borrows a handle): the map and with it every slot is dropped, in the
\* map's iteration order.  No call can follow.
DropStore ==
    /\ \A c \in Callers : ~Busy(c)
    /\ \E t \in Types : items[t].st # "Absent"
    /\ \E order \in Orders({t \in Types : items[t].st = "Placeholder"}) :
          /\ woken' = DropAll(order)
          /\ token' = Unparked(token, DropAll(order))
          /\ sched' = Woken(sched, DropAll(order))
    /\ items' = [t \in Types |-> Absent]
    /\ left' = 0
    /\ last' = NoEvent
    /\ UNCHANGED <<stack, ctorCount, menu, held>>
    /\ UNCHANGED <<lock, waker>>

NextNest ==
    \/ Next
    \/ \E c \in Callers : ConstructCall(c)
    \/ \E c \in Callers : CancelWait(c)
    \/ DropStore

SpecNest == InitNest /\ [][NextNest]_vars

\* The runs in which threads and a task initialize or get the fallible
\* resource and the executor may drop the task while it is suspended.
NextCancel ==
    \/ NextWoken
    \/ \E c \in Callers : CancelWait(c)

SpecCancel == InitWaker /\ [][NextCancel]_vars

\* The runs of the tests obtain_recursive and obtain_recursive_race: callers
\* obtain "R", whose constructor obtains "A", and "A" itself.
RecMenu == {<<"obtain", "R">>, <<"obtain", "A">>}

InitRec == Fresh /\ menu = RecMenu

\* What a caller does next of its own accord once it is scheduled: a thread
\* that is not parked runs, a thread whose token is set returns from park, a
\* task that was woken is polled.  Neither constructor can fail (Error =
\* Infallible), so the Err arm is never taken.
Runs(c) ==
    \/ PollForSlot(c)
    \/ ParkReturn(c)
    \/ TaskPolled(c)
    \/ ConstructCall(c)
    \/ Construct(c)
    \/ FillPlaceholder(c)

NextRec ==
    \E c \in Callers :
        \/ \E t \in Types : \E op \in Ops(t) : Call(c, op, t)
        \/ Runs(c)
        \/ SpuriousWake(c)

SpecRec == InitRec /\ [][NextRec]_vars

\* The runs in which every caller that can go on is scheduled in the end and
\* every constructor returns.
SpecRecFair == SpecRec /\ \A c \in Callers : WF_vars(Runs(c))

\* The same runs with executors that may drop a suspended task.
NextDrop ==
    \/ NextRec
    \/ \E c \in Callers : CancelWait(c)

SpecDrop == InitRec /\ [][NextDrop]_vars

\* The runs in which threads and a task obtain the resource whose blocking
\* constructor obtains itself, next to the fallible one.
MixedMenu == {<<"obtain", "M">>, <<"obtain", "B">>}

InitMixed == Fresh /\ menu = MixedMenu

NextMixed ==
    \/ Next
    \/ \E c \in Callers : ConstructCall(c)

SpecMixed == InitMixed /\ [][NextMixed]_vars

\* The runs in which callers obtain either of the two resources whose
\* constructors obtain each other, next to the fallible one.
CycleMenu == {<<"obtain", "P">>, <<"obtain", "Q">>, <<"obtain", "B">>}

InitCycle == Fresh /\ menu = CycleMenu

SpecCycle == InitCycle /\ [][NextMixed]_vars

\* ------------------------------------------------------------ axum.rs

\* A request handler's extractor runs on a task: from_request_parts of Dep<T>
\* or Obtain<T> calls try_get_async / try_obtain_async on Aero::from_ref(state).
CallExtract(c, op, t) ==
    /\ c \in Tasks
    /\ ~Busy(c)
    /\ left > 0
    /\ <<op, t>> \in menu
    /\ left' = left - 1
    /\ Enter(c, Frame(Extracts(op), t, "enter"), <<Frame(op, t, "extract")>>)
    /\ UNCHANGED menu

\* The runs of a server whose handlers extract the fallible resource while
\* threads initialize or insert it.
AxumMenu == {<<"Dep", "B">>, <<"Obtain", "B">>, <<"init", "B">>, <<"insert", "B">>}

InitAxum == Fresh /\ menu = AxumMenu

NextAxum ==
    \/ Next
    \/ \E c \in Callers : \E op \in Extractors : \E t \in Types : CallExtract(c, op, t)

SpecAxum == InitAxum /\ [][NextAxum]_vars

\* ------------------------------------------------------------ hooks

\* The runs with resources whose after_construction does something.
HookMenu ==
    {<<"init", "S">>, <<"obtain", "S">>, <<"get", "S">>, <<"get", "F">>,
     <<"init", "H">>, <<"obtain", "G">>}

InitHook == Fresh /\ menu = HookMenu

NextHook ==
    \/ Next
    \/ \E c \in Callers : HookCall(c)
    \/ \E c \in Callers : HookReturn(c)

SpecHook == InitHook /\ [][NextHook]_vars

\* The runs in which callers initialize or obtain the resource whose
\* constructor obtains another and whose constructor and hook may both fail.
FailMenu == {<<"init", "E">>, <<"obtain", "E">>}

InitFail == Fresh /\ menu = FailMenu

NextFail ==
    \/ NextHook
    \/ \E c \in Callers : ConstructCall(c)

SpecFail == InitFail /\ [][NextFail]_vars

\* --------------------------------------------------------- required lists

\* The remainder, had it kept the members the handle already requires.
Remainder_All(R2, R) == R2

\* <R2 as Sculptor<R, I>>::Remainder: the members of R2 that R lacks, in the
\* order of R2.
Remainder(R2, R) == SelectSeq(R2, LAMBDA t : t \notin R)

\* ResourceList::test, one link of it: HNil::test is true; HCons::test is
\* aero.has::<H>() && T::test(aero), each has under a read lock of its own.
\* try_into (and try_as_ref) returns Ok with the retyped handle when the test
\* is true and Err(self) (None) when it is false.
test(c, f, rest) ==
    /\ IF f.k = Len(f.list) THEN Finish(c, f, rest, "Ok", NoValue)
       ELSE IF ~has(items[f.list[f.k + 1]])
            THEN Finish(c, [f EXCEPT !.ty = f.list[f.k + 1]], rest, "Err", NoValue)
            ELSE IF f.k + 1 = Len(f.list) THEN Finish(c, f, rest, "Ok", NoValue)
                 ELSE Goto(c, [f EXCEPT !.k = f.k + 1], rest, "test")
    /\ woken' = <<>>
    /\ UNCHANGED <<items, token, sched, ctorCount>>
    /\ IF f.k = Len(f.list) THEN UNCHANGED lock ELSE Section(c, "read")
    /\ UNCHANGED waker

\* ConstructibleResourceList::construct, one link of it: Ok(()) for HNil, with
\* which try_construct_remaining returns the retyped handle; for HCons the
\* call aero.try_init::<H>() (try_init_async on a task).
construct(c, f, rest) ==
    IF f.k = Len(f.list)
    THEN /\ Finish(c, f, rest, "Ok", NoValue)
         /\ woken' = <<>>
         /\ UNCHANGED <<items, token, sched, ctorCount, lock, waker>>
    ELSE Enter(c, Frame("init", f.list[f.k + 1], "enter"),
               <<[f EXCEPT !.pc = "members", !.ty = f.list[f.k + 1]]>> \o rest)

\* Where the methods that take a resource list start.  into only retypes the
\* handle.
EnterList(c, f, rest) ==
    CASE f.op = "try_into" -> test(c, f, rest)
      [] f.op = "remaining" -> construct(c, f, rest)
      [] OTHER -> /\ Finish(c, f, rest, "Ok", NoValue)
                  /\ woken' = <<>>
                  /\ UNCHANGED <<items, token, sched, ctorCount, lock, waker>>

\* A caller invokes into / as_ref, try_into / try_as_ref or
\* try_construct_remaining (its async form on a task) with the list R2 on a
\* clone of its handle.  The Sculptor bounds are checked by the compiler:
\* into needs R2 within the handle's list, try_construct_remaining needs
\* the handle's list within R2.
CallList(c, op, R2) ==
    /\ ~Busy(c)
    /\ left > 0
    /\ <<op, R2>> \in menu
    /\ op = "into" => Range(R2) \subseteq held[c].R
    /\ op = "remaining" => held[c].R \subseteq Range(R2)
    /\ left' = left - 1
    /\ EnterList(c, FrameL(op, IF op = "remaining" THEN Remainder(R2, held[c].R) ELSE R2,
                           "enter"), <<>>)
    /\ UNCHANGED menu

\* The next has of ResourceList::test.
TestNext(c) ==
    /\ At(c, "test")
    /\ test(c, Top(c), Tail(stack[c]))
    /\ UNCHANGED <<left, menu>>

\* ConstructibleResourceList::construct goes on after a member's try_init
\* returned Ok.
ConstructNext(c) ==
    /\ At(c, "members")
    /\ construct(c, Top(c), Tail(stack[c]))
    /\ UNCHANGED <<left, menu>>

\* The lists the callers name.
Lists == {<<>>, <<"A">>, <<"B">>, <<"A", "B">>, <<"B", "A">>}

\* The runs in which callers retype their handles.
HandleMenu ==
    {<<"with", "B">>, <<"with_constructed", "A">>, <<"try_assert", "B">>,
     <<"assert", "A">>, <<"get", "A">>, <<"get", "B">>,
     <<"into", <<"A">>>>, <<"try_into", <<"A", "B">>>>,
     <<"remaining", <<"B", "A">>>>}

InitHandle == Fresh /\ menu = HandleMenu

NextHandle ==
    \/ Next
    \/ \E c \in Callers : \E op \in {"into", "try_into", "remaining"} :
          \E R2 \in Lists : CallList(c, op, R2)
    \/ \E c \in Callers : TestNext(c)
    \/ \E c \in Callers : ConstructNext(c)

SpecHandle == InitHandle /\ [][NextHandle]_vars

\* The runs in which callers widen their handles with
\* try_construct_remaining, the fallible member first or last in the list.
RemainMenu ==
    {<<"remaining", <<"A", "B">>>>, <<"remaining", <<"B", "A">>>>,
     <<"with", "B">>, <<"get", "A">>}

InitRemain == Fresh /\ menu = RemainMenu

NextRemain ==
    \/ Next
    \/ \E c \in Callers : \E R2 \in Lists : CallList(c, "remaining", R2)
    \/ \E c \in Callers : ConstructNext(c)

SpecRemain == InitRemain /\ [][NextRemain]_vars

\* ==================================================================
\* Properties
\* ==================================================================

\* The value the n-th invocation of a constructor makes.
Made(n) == [by |-> "ctor", n |-> n]

\* C1: for the resource whose constructor always succeeds, however many
\* threads and tasks obtain it concurrently, the constructor is invoked at
\* most once, and every obtain that returns was preceded by exactly one
\* invocation and returns the value of that invocation, which is the value
\* the slot holds.
C1_SingleConstruction ==
    /\ ctorCount["A"] <= 1
    /\ (last.op = "obtain" /\ last.ty = "A") =>
          /\ last.ret = "Ok"
          /\ ctorCount["A"] = 1
          /\ last.val = Made(1)
          /\ items["A"] = Filled(Made(1))

\* C1 witness: an obtain of "A" returns the value to a caller that queued
\* behind the constructing caller.
C1_Witness ==
    /\ last.op = "obtain" /\ last.ty = "A" /\ last.ret = "Ok"
    /\ last.idx # -1
    /\ last.val = Made(1)

\* A call ended in the step: every action sets last afresh.
Ends == last' # NoEvent

\* C2: when an owner's construction succeeds (its slot goes from
\* UnderConstruction to Filled), every caller parked or suspended on that
\* slot is woken by that step: a parked thread finds its token set, a
\* suspended task is scheduled.
C2_WakeOnSuccess ==
    [][ \A t \in Types :
          (items[t].st = "Placeholder" /\ items'[t].st = "Filled") =>
             \A c \in Callers :
                (At(c, "parked") /\ Top(c).ty = t) =>
                   IF c \in Threads THEN token'[c] ELSE sched'[c] ]_vars

\* C3: a caller that queued on a placeholder and polls again (after the
\* owner's failure woke it, or spuriously) either goes on (as the new owner,
\* or waiting for one) or returns a value or absent; its call never ends in
\* an abort.
C3_WaitersRecover ==
    [][ \A c \in Callers :
          (At(c, "poll") /\ Top(c).idx # -1 /\ Ends /\ last'.c = c) =>
             last'.ret \in {"Ok", "Some", "None"} ]_vars

\* The caller's call moves on in the step.
Steps(c) == stack'[c] # stack[c]

\* The step is a poll of the slot of t by an obtain or init call of c: by a
\* call that try_get_slot sent on to wait_for_slot(true), or by an init call
\* on its entry.
PollsToOwn(c, t) ==
    \/ /\ At(c, "poll") /\ Steps(c)
       /\ Top(c).ty = t /\ InsertPlaceholder(Top(c).op)
    \/ /\ ~Busy(c) /\ Busy(c)'
       /\ Top(c)'.op = "init" /\ Top(c)'.ty = t

\* C4: when the constructor of an obtain / init call (sync or async) has
\* returned an error, the call returns Err to the caller that owned the
\* placeholder and leaves the slot Absent, so that has is false; a try_get
\* that finds the slot Absent returns absent; and an obtain / init that polls
\* an Absent slot installs a fresh placeholder owned by its caller, with no
\* waiters, and goes on to invoke the constructor once more.
C4_Rollback ==
    [][ /\ \A c \in Callers :
             (At(c, "clear") /\ Steps(c)) =>
                /\ eq(items[Top(c).ty].owner, Current(c))
                /\ last' = Event(c, Top(c), "Err", NoValue)
                /\ items'[Top(c).ty] = Absent
                /\ ~has(items'[Top(c).ty])
        /\ (Ends /\ last'.op = "get" /\ items[last'.ty] = Absent) =>
                last'.ret = "None"
        /\ \A c \in Callers : \A t \in Types :
             (PollsToOwn(c, t) /\ items[t] = Absent) =>
                /\ items'[t] = Placeholder(Current(c), <<>>)
                /\ At(c, "construct")'
                /\ ctorCount'[t] = ctorCount[t] + 1 ]_vars

\* C4 witness: after a failed construction of "B" a later obtain found the
\* slot Absent, owned a fresh placeholder and returns the value of the
\* constructor's second invocation.
C4_Witness ==
    /\ last.op = "obtain" /\ last.ty = "B" /\ last.ret = "Ok"
    /\ last.idx = -1
    /\ last.val = Made(2)
    /\ items["B"] = Filled(Made(2))

\* The call on top of c's stack is for a type whose constructor is running
\* further down the same stack: the constructor of T has, directly or through
\* other constructors, called obtain for T on the caller it runs on.
SelfNested(c) ==
    /\ Busy(c)
    /\ \E i \in 2..Len(stack[c]) :
          stack[c][i].ty = Top(c).ty /\ stack[c][i].pc = "construct"

\* C5: an obtain for T made, on the same caller, from inside the constructor
\* that owns T's placeholder finds that placeholder owned by its caller, is
\* never parked or suspended, and its next step aborts the caller with the
\* cycle report.
C5_CycleDetected ==
    [][ \A c \in Callers :
          SelfNested(c) =>
             /\ items[Top(c).ty].st = "Placeholder"
             /\ items[Top(c).ty].owner = Current(c)
             /\ Top(c).pc = "poll"
             /\ Steps(c) =>
                   /\ last' = Event(c, Top(c), "Cycle", NoValue)
                   /\ stack'[c] = <<>> ]_vars

\* C5 witness: a task's obtain of "P", made by the constructor of "Q" while
\* the constructor of "P" waits for it, has aborted with the cycle report.
C5_Witness ==
    /\ last.ret = "Cycle" /\ last.op = "obtain" /\ last.ty = "P"
    /\ last.c \in Tasks
    /\ items["Q"].st = "Placeholder" /\ items["Q"].owner = Current(last.c)

\* The wake-up of caller c is pending: a thread's park token is set, a task is
\* scheduled to be polled.
Notified(c) == IF c \in Threads THEN token[c] ELSE sched[c]

\* The callers whose obtain / init of t is constructing or about to fill.
Owners(t) ==
    {c \in Callers : Busy(c) /\ Top(c).ty = t /\ Top(c).pc \in {"construct", "fill"}}

\* C6: threads (obtain, init) and tasks (their async forms) race on "A".  At
\* most one of them owns the placeholder and constructs, and the placeholder
\* names it as owner; every caller parked or suspended on the placeholder has
\* an entry of its own kind at its wait index; the step that fills the slot
\* wakes exactly the entries of the waiters list, threads by unpark and tasks
\* by wake; a parked caller whose slot is Filled has its wake-up pending; and
\* every call that ends returns Ok with the one constructed value.
C6_Interop ==
    [][ LET s == items["A"]
        IN /\ Cardinality(Owners("A")) <= 1
           /\ ctorCount["A"] <= 1
           /\ \A c \in Owners("A") :
                 s.st = "Placeholder" /\ s.owner = Current(c)
           /\ s.st = "Placeholder" => Owners("A") # {}
           /\ \A c \in Callers :
                 (At(c, "parked") /\ Top(c).ty = "A") =>
                    IF s.st = "Placeholder"
                    THEN /\ Top(c).idx \in 0..(Len(s.waiting) - 1)
                         /\ s.waiting[Top(c).idx + 1] = Current(c)
                    ELSE s.st = "Filled" /\ Notified(c)
           /\ (s.st = "Placeholder" /\ items'["A"].st # "Placeholder") =>
                 /\ items'["A"] = Filled(Made(1))
                 /\ \E c \in Owners("A") : last'.c = c
                 /\ woken' = s.waiting
                 /\ \A i \in 1..Len(s.waiting) :
                       /\ s.waiting[i].kind = "Thread" => token'[s.waiting[i].id]
                       /\ s.waiting[i].kind = "Waker" => sched'[s.waiting[i].id]
           /\ (Ends /\ last'.ty = "A" /\ last'.op \in {"obtain", "init"}) =>
                 /\ last'.ret = "Ok"
                 /\ items'["A"] = Filled(Made(1))
                 /\ last'.op = "obtain" => last'.val = Made(1) ]_vars

\* C6 witness: the owner of "A" has just filled the slot and woken both a
\* parked thread and a suspended task.
C6_Witness ==
    /\ items["A"] = Filled(Made(1))
    /\ last.ty = "A" /\ last.ret = "Ok"
    /\ \E i, j \in 1..Len(woken) :
          /\ woken[i].kind = "Thread" /\ token[woken[i].id]
          /\ woken[j].kind = "Waker" /\ sched[woken[j].id]

\* The types whose slot leaves the UnderConstruction state in the step.
Leaving == {t \in Types : items[t].st = "Placeholder" /\ items'[t].st # "Placeholder"}

RECURSIVE Waiters(_)
\* The waiters lists of the slots of the types in order, one after the other.
Waiters(order) == IF order = <<>> THEN <<>>
                  ELSE items[Head(order)].waiting \o Waiters(Tail(order))

\* C7: in a step in which slots leave the UnderConstruction state (filled,
\* removed, or destroyed with the store) the wake-ups made are exactly the
\* entries of those slots' waiters lists, each entry once, a Thread entry by
\* setting its thread's park token and a Waker entry by scheduling its task;
\* in a step in which no slot leaves that state nothing is woken.
C7_WakeCoverage ==
    [][ /\ \E order \in Orders(Leaving) : woken' = Waiters(order)
        /\ \A i \in 1..Len(woken') :
              /\ woken'[i].kind = "Thread" => token'[woken'[i].id]
              /\ woken'[i].kind = "Waker" => sched'[woken'[i].id]
        /\ \A c \in Threads :
              (token'[c] /\ ~token[c]) => Current(c) \in Range(woken')
        /\ \A c \in Tasks :
              (sched'[c] /\ ~sched[c]) => Current(c) \in Range(woken') ]_vars

\* C7 witness: the store has been destroyed while a placeholder still listed
\* a waiter, and that waiter was woken.
C7_Witness ==
    /\ woken # <<>>
    /\ last = NoEvent
    /\ \A t \in Types : items[t] = Absent

\* C8: an insert call is one step.  It returns Ok exactly when the slot was
\* Absent, and the slot is then Filled with the caller's value; otherwise it
\* aborts with the Duplicate report and the slot (value, or owner and
\* waiters) is as it was.  A Filled slot never changes, so that of any number
\* of inserts for one type at most the first to find the slot Absent
\* succeeds.
C8_Insert ==
    [][ /\ (Ends /\ last'.op = "insert") =>
              \/ /\ last'.ret = "Ok"
                 /\ items[last'.ty] = Absent
                 /\ items'[last'.ty] = Filled([by |-> last'.c, n |-> 0])
              \/ /\ last'.ret = "Duplicate"
                 /\ items[last'.ty] # Absent
                 /\ items'[last'.ty] = items[last'.ty]
        /\ \A t \in Types :
              items[t].st = "Filled" => items'[t] = items[t] ]_vars

\* C8 witness: an insert has aborted with Duplicate on a slot that is under
\* construction with a waiter queued, and the slot is as it was.
C8_Witness ==
    /\ last.op = "insert" /\ last.ty = "B" /\ last.ret = "Duplicate"
    /\ items["B"].st = "Placeholder"
    /\ items["B"].waiting # <<>>

\* C9: a has call is one step that leaves the store as it was and returns at
\* once, never waiting: true exactly when the slot is Filled, false for an
\* Absent slot and for one under construction.
C9_Has ==
    [][ (Ends /\ last'.op = "has") =>
          /\ last'.ret = (IF items[last'.ty].st = "Filled" THEN "True" ELSE "False")
          /\ items[last'.ty].st \in {"Absent", "Placeholder"} => last'.ret = "False"
          /\ items' = items
          /\ stack[last'.c] = <<>> /\ stack'[last'.c] = <<>>
          /\ woken' = <<>> ]_vars

\* C9 witness: has has returned false for a slot that is under construction.
C9_Witness ==
    /\ last.op = "has" /\ last.ret = "False"
    /\ items[last.ty].st = "Placeholder"

\* C10: a try_get / try_get_async call ends only by returning the stored
\* value of a Filled slot or absent for an Absent slot; in particular it does
\* not end while the slot is UnderConstruction.
C10_TryGet ==
    [][ (Ends /\ last'.op = "get") =>
          \/ /\ last'.ret = "Some"
             /\ items[last'.ty].st = "Filled"
             /\ last'.val = items[last'.ty].val
          \/ /\ last'.ret = "None"
             /\ items[last'.ty].st = "Absent" ]_vars

\* The step is one of a try_get / get call of c (sync or async) or a has call
\* of c: its entry, a poll, or a return from park.
ReaderStep(c) ==
    \/ Busy(c) /\ Top(c).op = "get" /\ Steps(c)
    \/ ~Busy(c) /\ Busy(c)' /\ Top(c)'.op = "get"
    \/ Ends /\ last'.c = c /\ last'.op \in {"get", "has"}

\* C11: a step of a try_get / get / has call invokes no constructor and
\* leaves every slot in its state, with its owner and its value; the most it
\* does to the store is to add the caller's entry to a waiters list or to
\* rewrite an entry that already is the caller's.
C11_ReadersFrame ==
    [][ \A c \in Callers :
          ReaderStep(c) =>
             /\ ctorCount' = ctorCount
             /\ \A t \in Types :
                   /\ items'[t].st = items[t].st
                   /\ items'[t].owner = items[t].owner
                   /\ items'[t].val = items[t].val
                   /\ \/ items'[t].waiting = items[t].waiting
                      \/ items'[t].waiting = Append(items[t].waiting, Current(c))
                      \/ \E i \in 1..Len(items[t].waiting) :
                            /\ items[t].waiting[i] = Current(c)
                            /\ items'[t].waiting =
                                  [items[t].waiting EXCEPT ![i] = Current(c)] ]_vars

\* C13: a slot that is Filled stays Filled with the same value through every
\* step of insert, try_get, has, obtain and init calls; and a caller about to
\* run fill_placeholder or clear_placeholder finds the slot UnderConstruction
\* with itself as owner.
C13_FilledPermanent ==
    [][ /\ \A t \in Types :
              items[t].st = "Filled" =>
                 items'[t].st = "Filled" /\ items'[t].val = items[t].val
        /\ \A c \in Callers :
              (At(c, "fill") \/ At(c, "clear")) =>
                 /\ items[Top(c).ty].st = "Placeholder"
                 /\ items[Top(c).ty].owner = Current(c) ]_vars

\* C13 witness: an insert has been attempted on a slot that a constructor
\* filled, and the slot still holds the constructed value.
C13_Witness ==
    /\ last.op = "insert" /\ last.ret = "Duplicate"
    /\ items[last.ty].st = "Filled"
    /\ items[last.ty].val.by = "ctor"

\* Every member of the required list of every handle is Filled.
Consistent == \A c \in Callers : \A t \in held[c].R : items[t].st = "Filled"

\* C12: every type in the required list of a handle (however the handle was
\* produced: new, with, with_constructed, assert / try_assert, try_into,
\* try_construct_remaining, into, clone) is Filled when the handle is produced
\* and in every later state; and a try_get of such a type through the handle
\* returns the stored value without having waited, so that get does not
\* abort.
C12_Consistency ==
    /\ Consistent
    /\ (last.op = "get" /\ last.ty \in held[last.c].R) =>
          /\ last.ret = "Some"
          /\ last.val = items[last.ty].val
          /\ last.idx = -1

\* C12 witness: a caller whose handle requires both "A" and "B" has got one of
\* them with get.
C12_Witness ==
    /\ last.op = "get" /\ last.ret = "Some"
    /\ held[last.c].R = {"A", "B"}

\* C14: try_into (try_as_ref) with the list R2 never waits and never
\* changes the store.  It returns Ok, with the handle retyped to R2, only
\* when every member of R2 is Filled; it returns Err, with the handle as it
\* was, when the member it has just examined is not Filled (Absent or
\* UnderConstruction), and it reaches a member only after it found the
\* members before it Filled.  into only retypes the handle, to a list within
\* the one it had, and leaves the store alone, so a try_into back to a list
\* whose members are Filled returns Ok.
C14_TryInto ==
    [][ /\ \A c \in Callers :
              (Busy(c) /\ Top(c).op = "try_into") =>
                 /\ Top(c).pc = "test"
                 /\ \A i \in 1..Top(c).k : items[Top(c).list[i]].st = "Filled"
                 /\ Steps(c) => items' = items /\ woken' = <<>>
        /\ (Ends /\ last'.op = "try_into") =>
              /\ items' = items
              /\ \/ /\ last'.ret = "Ok"
                    /\ \A t \in Range(last'.list) : items[t].st = "Filled"
                    /\ held'[last'.c] = Retype(held[last'.c], Range(last'.list))
                 \/ /\ last'.ret = "Err"
                    /\ last'.ty \in Range(last'.list)
                    /\ items[last'.ty].st \in {"Absent", "Placeholder"}
                    /\ held'[last'.c] = held[last'.c]
        /\ (Ends /\ last'.op = "into") =>
              /\ items' = items
              /\ last'.ret = "Ok"
              /\ Range(last'.list) \subseteq held[last'.c].R
              /\ held'[last'.c] = Retype(held[last'.c], Range(last'.list)) ]_vars

\* C14 witness: the last call of a run is a try_into to a list of two members
\* that returned Ok with the handle retyped to that list.
C14_Witness ==
    /\ last.op = "try_into" /\ last.ret = "Ok"
    /\ last.list = <<"A", "B">>
    /\ held[last.c].R = {"A", "B"}
    /\ left = 0

\* C15: assert and try_assert are one step that leaves the store as it was.
\* When the slot is Filled they return Ok and the handle's required list
\* gains the type; when it is Absent or UnderConstruction, assert aborts with
\* the missing-resource report and try_assert returns Err, the handle being
\* as it was.
C15_Assert ==
    [][ (Ends /\ last'.op \in {"assert", "try_assert"}) =>
          /\ items' = items
          /\ stack[last'.c] = <<>> /\ stack'[last'.c] = <<>>
          /\ IF items[last'.ty].st = "Filled"
             THEN /\ last'.ret = "Ok"
                  /\ held'[last'.c] =
                        Handle(held[last'.c].inner, held[last'.c].R \cup {last'.ty})
             ELSE /\ last'.ret = (IF last'.op = "assert" THEN "Missing" ELSE "Err")
                  /\ held'[last'.c] = held[last'.c] ]_vars

\* C15 witness: assert has aborted on a slot that is under construction.
C15_Witness ==
    /\ last.op = "assert" /\ last.ret = "Missing"
    /\ items[last.ty].st = "Placeholder"

\* C16: every handle, whatever its required list and however it was derived,
\* holds the Arc of the one store, so has and try_get read the same slot
\* through every handle: the answer a has or try_get call has just returned
\* is the answer the slot gives through each caller's handle.
C16_SameStore ==
    /\ \A c \in Callers : held[c].inner = New.inner
    /\ \A c, d \in Callers : \A t \in Types :
          /\ has(StoreOf(held[c])[t]) = has(StoreOf(held[d])[t])
          /\ desc(StoreOf(held[c])[t]) = desc(StoreOf(held[d])[t])
    /\ \A c \in Callers :
          /\ last.op = "has" =>
                (last.ret = "True") = has(StoreOf(held[c])[last.ty])
          /\ (last.op = "get" /\ last.ret = "Some") =>
                desc(StoreOf(held[c])[last.ty]) = [d |-> "Filled", val |-> last.val]
          /\ (last.op = "get" /\ last.ret = "None") =>
                StoreOf(held[c])[last.ty] = Absent

\* C16 witness: the callers hold handles with the empty, a narrowed and the
\* full required list, and a try_get through one of them has returned a value.
C16_Witness ==
    /\ \E c, d, e \in Callers :
          held[c].R = {} /\ held[d].R = {"A"} /\ held[e].R = {"A", "B"}
    /\ last.op = "get" /\ last.ret = "Some"

\* The try_construct_remaining call of c that is in progress, if any: it is
\* never nested, so its frame is the outermost one.
Outer(c) == stack[c][Len(stack[c])]
Widening(c) == Busy(c) /\ Outer(c).op = "remaining"

\* While c's try_construct_remaining runs: the members it goes through are
\* those of the list R2 it named that its handle lacks, in the order of R2;
\* the members it has gone through are Filled; and the try_init it is in, if
\* any, is for the first member it has not gone through.
InOrder(c) ==
    Widening(c) =>
        LET f == Outer(c) IN
        /\ \E m \in menu : /\ m[1] = "remaining"
                           /\ f.list = SelectSeq(m[2], LAMBDA t : t \notin held[c].R)
        /\ f.k <= Len(f.list)
        /\ \A i \in 1..f.k : items[f.list[i]].st = "Filled"
        /\ Len(stack[c]) > 1 =>
              /\ Len(stack[c]) = 2
              /\ f.k < Len(f.list)
              /\ Top(c).op = "init" /\ Top(c).ty = f.list[f.k + 1]

\* C17: try_construct_remaining(R2) calls try_init for the members of R2 the
\* handle lacks, one after the other in the order of R2.  When a member's
\* try_init returns an error the call returns the error in that step: the
\* members before it are Filled, no member after it has been or is attempted,
\* and the handle is unchanged.  When it returns Ok every member of R2 is
\* Filled and the handle is widened to R2.
C17_ConstructRemaining ==
    [][ /\ \A c \in Callers :
              /\ InOrder(c)'
              /\ (Widening(c) /\ Widening(c)') =>
                    /\ Outer(c)'.list = Outer(c).list
                    /\ Outer(c)'.k \in {Outer(c).k, Outer(c).k + 1}
        /\ (Ends /\ last'.op = "remaining" /\ last'.ret = "Err") =>
              LET c == last'.c IN
              /\ Widening(c)
              /\ last'.ty = Outer(c).list[Outer(c).k + 1]
              /\ last'.ty \in Fallible
              /\ items'[last'.ty].st = "Absent"
              /\ \A i \in 1..Outer(c).k : items'[Outer(c).list[i]].st = "Filled"
              /\ \A i \in (Outer(c).k + 2)..Len(Outer(c).list) :
                    ctorCount'[Outer(c).list[i]] = ctorCount[Outer(c).list[i]]
              /\ stack'[c] = <<>>
              /\ held'[c] = held[c]
        /\ (Ends /\ last'.op = "remaining" /\ last'.ret # "Err") =>
              LET c == last'.c IN
              /\ last'.ret = "Ok"
              /\ stack'[c] = <<>>
              /\ \E m \in menu : /\ m[1] = "remaining"
                                 /\ held'[c] = Handle(held[c].inner, Range(m[2]))
                                 /\ held[c].R \cup Range(last'.list) = Range(m[2])
              /\ \A t \in held'[c].R : items'[t].st = "Filled" ]_vars

\* C17 witness: a try_construct_remaining that went through A and then B has
\* returned the error of B's constructor; A, constructed by it, is Filled,
\* B is Absent and the caller's handle is as it was.
C17_Witness ==
    /\ last.op = "remaining" /\ last.ret = "Err"
    /\ last.list = <<"A", "B">> /\ last.ty = "B"
    /\ items["A"].st = "Filled" /\ items["B"].st = "Absent"
    /\ ctorCount["A"] = 1
    /\ held[last.c].R = {}

\* The after_construction hook of t is running on some caller.
HookRuns(t) ==
    \E d \in Callers : \E i \in 1..Len(stack[d]) :
        stack[d][i].pc = "hook" /\ stack[d][i].ty = t

\* C18: after_construction is entered only from T's constructor having
\* returned Ok, and T's slot is Filled only by a caller whose hook has run and
\* returned.  While the hook runs the slot is a placeholder owned by the
\* caller: has is false, no try_get or obtain of T returns a value, and an
\* obtain of T made by the hook aborts with the cycle report at its next
\* step.  A hook error leaves the store as it is and takes the Err arm: the
\* next step removes the slot and returns Err.
C18_HookOrdering ==
    [][ /\ \A c \in Callers : \A i \in 1..Len(stack'[c]) :
              stack'[c][i].pc = "hook" =>
                 LET f == stack'[c][i] IN
                 /\ items'[f.ty].st = "Placeholder"
                 /\ items'[f.ty].owner = Current(c)
                 /\ f.seen # <<>>
                 /\ f.val = [by |-> "ctor", n |-> ctorCount'[f.ty]]
        /\ \A c \in Callers :
              (At(c, "hook")' /\ ~HookRuns(Top(c)'.ty)) =>
                 /\ At(c, "construct")
                 /\ Top(c).ty = Top(c)'.ty
                 /\ Top(c).k = Len(Deps(Top(c).ty))
        /\ \A t \in Hooked :
              (items[t].st # "Filled" /\ items'[t].st = "Filled") =>
                 \E c \in Callers :
                    /\ At(c, "fill") /\ Top(c).ty = t
                    /\ Top(c).seen # <<>>
                    /\ items[t].st = "Placeholder" /\ items[t].owner = Current(c)
                    /\ items'[t].val = Top(c).val
                    /\ ~HookRuns(t)
        /\ \A c \in Callers :
              /\ (At(c, "hook") /\ At(c, "clear")') =>
                    /\ Top(c).ty \in HookFallible
                    /\ items' = items
              /\ (At(c, "clear") /\ Top(c).seen # <<>> /\ Steps(c)) =>
                    /\ items[Top(c).ty].st = "Placeholder"
                    /\ items'[Top(c).ty] = Absent
                    /\ last' = Event(c, Top(c), "Err", NoValue)
                    /\ stack'[c] = Tail(stack[c])
              /\ (Len(stack[c]) >= 2 /\ stack[c][2].pc = "hook"
                    /\ Top(c).op = "obtain" /\ Top(c).ty = stack[c][2].ty) =>
                    /\ Top(c).pc = "poll"
                    /\ Steps(c) => /\ last' = Event(c, Top(c), "Cycle", NoValue)
                                   /\ stack'[c] = <<>>
        /\ (Ends /\ last'.op \in {"get", "obtain"} /\ last'.ret \in {"Some", "Ok"}) =>
              ~HookRuns(last'.ty) ]_vars

\* C18 witness: the hook of "S" is running on the wrapped value and has
\* inserted the facade, while the slot of "S" is still the caller's
\* placeholder and another caller waits on it.
C18_Witness ==
    \E c \in Callers :
        /\ At(c, "hook") /\ Top(c).ty = "S"
        /\ Top(c).seen[Len(Top(c).seen)] = "shared" /\ Top(c).k = 1
        /\ items["F"].st = "Filled"
        /\ items["S"].st = "Placeholder" /\ items["S"].owner = Current(c)
        /\ items["S"].waiting # <<>>

\* C19: in the construction of a Shared<T> the hook is invoked once, on the
\* wrapped value and not on the bare T, before the slot is filled, and the
\* facade the hook inserts on seeing the wrapped value is then Filled.
C19_SharedLift ==
    [][ \A c \in Callers :
          (At(c, "fill") /\ Top(c).ty \in Shared /\ Steps(c)) =>
              /\ Top(c).seen = <<"shared">>
              /\ items'["F"].st = "Filled" ]_vars

\* C20: try_init / init acts on the store as try_obtain / obtain does and
\* returns no value.  Its first poll is made by the call itself (try_obtain
\* looks at the slot under the read lock first).  A poll by either changes T's slot as poll_for_slot with
\* insert_placeholder set does, and only that slot; a poll that finds the slot
\* Filled returns Ok (from init without the value) and changes nothing: no
\* constructor is invoked, the stored value stays, nobody is woken.  Either
\* returns Ok only with the slot Filled, and Err only from its own failed
\* construction, with the slot removed.
C20_Init ==
    [][ /\ \A c \in Callers :
              (At(c, "poll") /\ Top(c).op \in {"init", "obtain"} /\ Steps(c)) =>
                 LET f == Top(c)
                     r == poll_for_slot(items[f.ty], f.idx, Current(c), TRUE)
                 IN /\ items' = [items EXCEPT ![f.ty] = r.slot]
                    /\ r.ret = "ReadySome" =>
                          /\ items' = items /\ ctorCount' = ctorCount
                          /\ token' = token /\ sched' = sched
                          /\ last' = Event(c, f, "Ok", IF f.op = "init" THEN NoValue ELSE r.val)
                    /\ r.ret = "ReadyNone" =>
                          /\ items'[f.ty] = Placeholder(Current(c), <<>>)
                          /\ ctorCount'[f.ty] = ctorCount[f.ty] + 1
                          /\ At(c, "construct")'
        /\ \A c \in Callers : \A t \in Types :
              (/\ ~Busy(c)
               /\ \/ Busy(c)' /\ Top(c)'.op = "init" /\ Top(c)'.ty = t
                  \/ Ends /\ last'.c = c /\ last'.op = "init" /\ last'.ty = t) =>
                 LET r == poll_for_slot(items[t], -1, Current(c), TRUE)
                 IN /\ items' = [items EXCEPT ![t] = r.slot]
                    /\ ctorCount' = [ctorCount EXCEPT ![t] =
                                        IF r.ret = "ReadyNone" THEN @ + 1 ELSE @]
                    /\ r.ret = "ReadySome" => last' = Event(c, Frame("init", t, "enter"), "Ok", NoValue)
        /\ (Ends /\ last'.op = "init") =>
              /\ last'.val = NoValue
              /\ last'.ret = "Ok" =>
                    /\ items'[last'.ty].st = "Filled"
                    /\ items[last'.ty].st = "Filled" =>
                          /\ items' = items /\ ctorCount' = ctorCount
                          /\ token' = token /\ sched' = sched
              /\ last'.ret = "Err" =>
                    /\ items[last'.ty].st = "Placeholder"
                    /\ items[last'.ty].owner = Current(last'.c)
                    /\ items'[last'.ty] = Absent
              /\ last'.ret # "None" ]_vars

\* C20 witness: an init of "B" that never waited has returned Ok on a slot
\* that holds an inserted value, so it found the slot Filled; no constructor
\* of "B" has been invoked.
C20_Witness ==
    /\ last.op = "init" /\ last.ty = "B" /\ last.ret = "Ok" /\ last.idx = -1
    /\ items["B"].st = "Filled" /\ items["B"].val.by \in Callers
    /\ ctorCount["B"] = 0

\* The panics a store call can end with: cyclic_resource, duplicate_resource,
\* missing_resource and the bounds check of waiting[idx].
Aborts == {"Cycle", "Duplicate", "Missing", "IndexPanic"}

\* Caller c is inside the constructor (or hook) of t, whose placeholder its
\* call installed.
Constructing(c, t) ==
    \E i \in 1..Len(stack[c]) :
        stack[c][i].ty = t /\ stack[c][i].pc \in {"construct", "hook"}

\* C21: when a panic (a cycle or duplicate abort included) unwinds a caller
\* out of the constructor of T, whose placeholder it owns, the slot of T is
\* removed in that step and its waiters are woken.
C21_PanicRollback ==
    [][ \A c \in Callers : \A t \in Types :
          (/\ Constructing(c, t)
           /\ Ends /\ last'.c = c /\ last'.ret \in Aborts) =>
              /\ items'[t] = Absent
              /\ Range(items[t].waiting) \subseteq Range(woken') ]_vars

\* C22: when the future of a task that owns the placeholder of T is dropped
\* before it filled or cleared it, the slot of T is removed in that step and
\* its waiters are woken.
C22_DropRollback ==
    [][ \A c \in Tasks : \A t \in Types :
          (/\ Constructing(c, t)
           /\ Ends /\ last'.c = c /\ last'.ret = "Cancelled") =>
              /\ items'[t] = Absent
              /\ Range(items[t].waiting) \subseteq Range(woken') ]_vars

\* Caller c is parked or suspended on a placeholder that caller d owns.
WaitsOn(c, d) ==
    /\ At(c, "parked")
    /\ items[Top(c).ty].st = "Placeholder"
    /\ items[Top(c).ty].owner = Current(d)

\* Some callers wait on each other in a circle.
WaitCycle ==
    \E c, d, e \in Callers :
        \/ WaitsOn(c, c)
        \/ WaitsOn(c, d) /\ WaitsOn(d, c)
        \/ WaitsOn(c, d) /\ WaitsOn(d, e) /\ WaitsOn(e, c)

\* C23: with the constructor of "R" obtaining "A" and callers obtaining both
\* concurrently: no call reports a cycle, no callers wait on each other in a
\* circle, each constructor is invoked at most once, an obtain that returns
\* leaves its type (and, for "R", "A" too) Filled, each constructor having
\* run exactly once, and every call returns.
C23_NestedTerminates ==
    /\ [](/\ last.ret \notin Aborts
          /\ ~WaitCycle
          /\ \A t \in {"A", "R"} : ctorCount[t] <= 1)
    /\ [][ (Ends /\ last'.op = "obtain") =>
              /\ last'.ret = "Ok"
              /\ \A t \in {last'.ty} \cup Range(Deps(last'.ty)) :
                    /\ items'[t].st = "Filled"
                    /\ ctorCount'[t] = 1
              /\ last'.val = items'[last'.ty].val ]_vars
    /\ \A c \in Callers : Busy(c) ~> ~Busy(c)

\* C23 witness: a task's obtain of "R" that had to wait has returned; "A" and
\* "R" are Filled, each constructed once.
C23_Witness ==
    /\ last.op = "obtain" /\ last.ty = "R" /\ last.ret = "Ok"
    /\ last.c \in Tasks /\ last.idx >= 0
    /\ items["A"].st = "Filled" /\ items["R"].st = "Filled"
    /\ ctorCount["A"] = 1 /\ ctorCount["R"] = 1

\* C24: Dep<T> returns the value try_get_async yields and DoesNotExist
\* naming T when it yields absent; no step of a Dep invokes a constructor or
\* installs a placeholder.  Obtain<T> returns the value try_obtain_async
\* yields, constructing T when it finds the slot Absent, and
\* FailedToConstruct naming T when its own construction failed, the slot
\* being Absent again in that step.
C24_Extractors ==
    [][ /\ \A c \in Callers :
              (stack'[c] # stack[c] /\
                 \/ Busy(c) /\ Outer(c).op = "Dep"
                 \/ Busy(c)' /\ Outer(c)'.op = "Dep"
                 \/ Ends /\ last'.c = c /\ last'.op = "Dep") =>
                 /\ ctorCount' = ctorCount
                 /\ \A t \in Types :
                       /\ items'[t].st = items[t].st
                       /\ items'[t].owner = items[t].owner
                       /\ items'[t].val = items[t].val
        /\ (Ends /\ last'.op = "Dep") =>
              \/ /\ last'.ret = "Ok"
                 /\ items'[last'.ty] = Filled(last'.val)
              \/ /\ last'.ret = "DoesNotExist"
                 /\ items'[last'.ty] = Absent
        /\ \A c \in Callers :
              (Busy(c) /\ Outer(c).op = "Obtain" /\ At(c, "poll")
                 /\ items[Top(c).ty] = Absent /\ Steps(c)) =>
                 /\ At(c, "construct")'
                 /\ ctorCount'[Top(c).ty] = ctorCount[Top(c).ty] + 1
        /\ (Ends /\ last'.op = "Obtain") =>
              \/ /\ last'.ret = "Ok"
                 /\ items'[last'.ty] = Filled(last'.val)
              \/ /\ last'.ret = "FailedToConstruct"
                 /\ At(last'.c, "clear")
                 /\ items[last'.ty].st = "Placeholder"
                 /\ items[last'.ty].owner = Current(last'.c)
                 /\ items'[last'.ty] = Absent ]_vars

\* C24 witness: an Obtain of "B" has failed with FailedToConstruct after its
\* own construction failed; the slot is Absent again.
C24_Witness ==
    /\ last.op = "Obtain" /\ last.ty = "B" /\ last.ret = "FailedToConstruct"
    /\ items["B"] = Absent
    /\ ctorCount["B"] >= 1

\* Caller c is between the poll that answered Ready(None) to its obtain or
\* init of t, having inserted the placeholder, and the fill_placeholder or
\* clear_placeholder that ends its construction.
Between(c, t) ==
    \E i \in 1..Len(stack[c]) :
        stack[c][i].ty = t /\ stack[c][i].pc \in {"construct", "hook", "fill", "clear"}

\* C25: for each type at most one caller is between the Ready(None) of a poll
\* with insert_placeholder and its fill or clear, and the slot is then a
\* placeholder that names that caller as owner.  A placeholder appears only
\* in place of an Absent slot, with no waiters, in the step that sends its
\* owner off to construct; and a placeholder's owner never changes.
C25_SoleConstructor ==
    [][ \A t \in Types :
          /\ \A c, d \in Callers : (Between(c, t)' /\ Between(d, t)') => c = d
          /\ \A c \in Callers :
                Between(c, t)' => /\ items'[t].st = "Placeholder"
                                  /\ items'[t].owner = Current(c)
          /\ (items'[t].st = "Placeholder" /\ items[t].st # "Placeholder") =>
                /\ items[t] = Absent
                /\ items'[t].waiting = <<>>
                /\ \E c \in Callers :
                      /\ items'[t].owner = Current(c)
                      /\ ~Between(c, t) /\ Between(c, t)'
                      /\ At(c, "construct")'
                      /\ ctorCount'[t] = ctorCount[t] + 1
          /\ (items[t].st = "Placeholder" /\ items'[t].st = "Placeholder") =>
                items'[t].owner = items[t].owner ]_vars

\* C25 witness: after a failed construction of "B" one caller constructs it
\* anew while the two others are registered as waiters of its placeholder.
C25_Witness ==
    /\ ctorCount["B"] = 2
    /\ items["B"].st = "Placeholder" /\ Len(items["B"].waiting) = 2
    /\ \E c \in Callers : At(c, "construct") /\ Top(c).ty = "B"
                          /\ items["B"].owner = Current(c)

\* C26: whenever a poll takes the branch `if let Some(idx) = *wait_index` (the
\* caller polls with a wait index, the slot is a placeholder and the caller
\* is not its owner), the index is within the waiters list of that
\* placeholder and the entry there is the caller's own.
C26_WaitIndex ==
    [][ \A c \in Callers :
          (/\ At(c, "poll") /\ Steps(c)
           /\ Top(c).idx # -1
           /\ items[Top(c).ty].st = "Placeholder"
           /\ ~eq(Current(c), items[Top(c).ty].owner)) =>
              /\ Top(c).idx < Len(items[Top(c).ty].waiting)
              /\ items[Top(c).ty].waiting[Top(c).idx + 1] = Current(c) ]_vars

\* C27: an obtain for T made from inside the constructor of T that is running
\* on the same caller aborts with the cycle report at its first poll, whether
\* the outer and the inner call are blocking or async.
C27_MixedCycle ==
    [][ \A c \in Callers :
          (SelfNested(c) /\ Top(c).pc = "poll" /\ Steps(c)) =>
              /\ last' = Event(c, Top(c), "Cycle", NoValue)
              /\ stack'[c] = <<>> ]_vars

\* C28: with constructors that obtain each other, in no reachable state does
\* one caller own the placeholder of one type and wait on the other type
\* while another caller owns that one and waits on the first: no callers
\* wait on each other in a circle.
C28_NoDeadlock ==
    /\ ~WaitCycle
    /\ \A c, d \in Callers :
          ~(/\ c # d
            /\ Constructing(c, "P") /\ At(c, "parked") /\ Top(c).ty = "Q"
            /\ Constructing(d, "Q") /\ At(d, "parked") /\ Top(d).ty = "P")

\* C29: a call ends with the cycle report for T only if it is nested, on its
\* caller, inside a constructor of T that is running.
C29_NoFalseCycle ==
    [][ \A c \in Callers :
          (Ends /\ last'.c = c /\ last'.ret = "Cycle") =>
              /\ SelfNested(c)
              /\ Top(c).ty = last'.ty ]_vars

\* Caller c is in user code (a constructor or a hook), parked in safe_park,
\* or a task that has returned Pending.
Outside(c) ==
    \E i \in 1..Len(stack[c]) : stack[c][i].pc \in {"construct", "hook", "parked"}

\* C30: a caller that is executing a constructor or hook, is parked, or is a
\* task that has returned Pending holds no guard of the store's lock; no
\* guard outlives the store operation that took it; so when a call made from
\* a constructor comes to its locked section the lock is not held by its own
\* caller.
C30_LockDiscipline ==
    /\ \A c \in Callers : Outside(c) => lock[c] = "none"
    /\ \A c \in Callers : lock[c] = "none"
    /\ \A c \in Callers :
          (Len(stack[c]) >= 2 /\ Top(c).pc = "poll") => \A d \in Callers : lock[d] = "none"

\* C30 witness: a task that is in the constructor of "R" has returned Pending
\* from its obtain of "A" while a thread runs the constructor of "A" and
\* another thread is parked; nobody holds the lock.
C30_Witness ==
    /\ \E c \in Tasks : /\ Len(stack[c]) = 2 /\ At(c, "parked")
                        /\ stack[c][2].pc = "construct" /\ stack[c][2].ty = "R"
    /\ \E c \in Threads : At(c, "construct") /\ Top(c).ty = "A"
    /\ \E c \in Threads : At(c, "parked")
    /\ \A c \in Callers : lock[c] = "none"

\* The slot of t resolves in the step: its placeholder is filled or removed.
Resolves(t) == items[t].st = "Placeholder" /\ items'[t].st # "Placeholder"

\* Task k is suspended in a call on t and has no wake-up pending.
Suspended(k, t) == At(k, "parked") /\ Top(k).ty = t /\ ~sched[k]

\* C31: when a task that waits on a slot is polled with a waker unlike the
\* one in its entry, the poll writes the new waker over that entry and leaves
\* the rest of the list as it was; and when the slot resolves, every task
\* that was polled with a replaced waker and is suspended on the slot is
\* woken through the waker of its most recent poll.
C31_WakerReplaced ==
    [][ \A k \in Tasks : \A t \in Types :
          /\ ( /\ At(k, "poll") /\ Top(k).ty = t /\ Steps(k)
               /\ items[t].st = "Placeholder"
               /\ Top(k).idx # -1 /\ Top(k).idx < Len(items[t].waiting)
               /\ items[t].waiting[Top(k).idx + 1].kind = "Waker"
               /\ items[t].waiting[Top(k).idx + 1].id = k
               /\ items[t].waiting[Top(k).idx + 1].gen # waker[k] )
             => items'[t].waiting = [items[t].waiting EXCEPT ![Top(k).idx + 1] = Current(k)]
          /\ (Resolves(t) /\ Suspended(k, t) /\ waker[k] > 0)
             => /\ Current(k) \in Range(woken')
                /\ sched'[k] ]_vars

\* The waiting call of c on t has its entry in the list of the slot that is
\* in the map, at its wait index.
Registered(c, t) ==
    /\ Busy(c) /\ Top(c).ty = t /\ Top(c).idx # -1
    /\ items[t].st = "Placeholder"
    /\ Top(c).idx < Len(items[t].waiting)
    /\ items[t].waiting[Top(c).idx + 1] = Current(c)

\* Caller c has returned from park (or has been polled) although the slot it
\* registered with is still under construction: a spurious wake-up.
Respun(c) == \E t \in Types : At(c, "poll") /\ Registered(c, t)

\* C32: the poll that follows a spurious wake-up leaves the caller at its
\* wait index, leaves the list at its length with one entry for the caller,
\* and parks the caller again; and a caller that was woken spuriously does
\* not wait for ever: its call ends once the slot has been resolved.
C32_SpuriousWake ==
    /\ [][ \A c \in Callers : \A t \in Types :
             (At(c, "poll") /\ Registered(c, t) /\ Steps(c)) =>
                /\ At(c, "parked")'
                /\ Top(c)'.idx = Top(c).idx
                /\ Len(items'[t].waiting) = Len(items[t].waiting)
                /\ Cardinality({i \in 1..Len(items'[t].waiting) :
                                   items'[t].waiting[i] = Current(c)}) = 1 ]_vars
    /\ \A c \in Callers : Respun(c) ~> ~Busy(c)

\* The step is a poll of the slot of t by the waiting call of c that leaves
\* the call waiting (Poll::Pending).
Requeues(c, t) ==
    /\ At(c, "poll") /\ Top(c).ty = t /\ Steps(c)
    /\ items[t].st = "Placeholder"
    /\ At(c, "parked")'

\* C33: a first poll that has to wait appends the caller to the waiters list
\* and gives it the position at the end; a later poll of the same call keeps
\* that position and rewrites the caller's own entry there, every other entry
\* staying where it is; and the step that drops the slot issues the wake
\* events in list order, the event at each waiting caller's position being the
\* one for that caller.
C33_WakeOrder ==
    [][ \A t \in Types :
          /\ \A c \in Callers :
                Requeues(c, t) =>
                   IF Top(c).idx = -1
                   THEN /\ Top(c)'.idx = Len(items[t].waiting)
                        /\ items'[t].waiting = Append(items[t].waiting, Current(c))
                   ELSE /\ Top(c)'.idx = Top(c).idx
                        /\ items[t].waiting[Top(c).idx + 1].id = c
                        /\ items'[t].waiting =
                              [items[t].waiting EXCEPT ![Top(c).idx + 1] = Current(c)]
          /\ Resolves(t) =>
                /\ woken' = items[t].waiting
                /\ \A c \in Callers :
                      ( /\ At(c, "parked") /\ Top(c).ty = t
                        /\ IF c \in Threads THEN ~token[c] ELSE ~sched[c] )
                      => /\ Top(c).idx < Len(woken')
                         /\ woken'[Top(c).idx + 1] = Current(c) ]_vars

\* The waiters list of t holds an entry that a dropped WaitForSlot left
\* behind: a waker at an index at which its task has no waiting call.
Stale(t) ==
    /\ items[t].st = "Placeholder"
    /\ \E i \in 1..Len(items[t].waiting) :
          /\ items[t].waiting[i].kind = "Waker"
          /\ LET k == items[t].waiting[i].id
             IN ~(Busy(k) /\ Top(k).ty = t /\ Top(k).idx = i - 1)

\* C34: the step that drops a suspended task's WaitForSlot leaves every slot
\* as it is, the dropped call's entry included, and wakes nobody; and when a
\* slot whose list holds such an entry is resolved, the wake events are those
\* of the list, no thread is unparked that has no entry in it, and every
\* caller that is still waiting on the slot is woken by that step.
C34_CancelHarmless ==
    [][ /\ \A k \in Tasks :
             (At(k, "parked") /\ last'.c = k /\ last'.ret = "Cancelled") =>
                /\ items' = items
                /\ token' = token /\ sched' = sched
                /\ woken' = <<>>
        /\ \A t \in Types :
             (Resolves(t) /\ Stale(t)) =>
                /\ woken' = items[t].waiting
                /\ \A c \in Threads :
                      (token'[c] /\ ~token[c]) => Current(c) \in Range(items[t].waiting)
                /\ \A c \in Callers :
                      ( /\ At(c, "parked") /\ Top(c).ty = t
                        /\ IF c \in Threads THEN ~token[c] ELSE ~sched[c] )
                      => IF c \in Threads THEN token'[c] ELSE sched'[c] ]_vars

\* C35: the step in which a try_obtain / try_init of t returns Err removes
\* the placeholder of t, which its caller owned, and leaves the slot of every
\* other type as it was; and no step changes a slot that is Filled, so what
\* the constructor obtained and what the hook inserted before the failure
\* stay in the store.
C35_FailureFrame ==
    [][ /\ (Ends /\ last'.ret = "Err" /\ last'.op \in {"obtain", "init"}) =>
              /\ items[last'.ty].st = "Placeholder"
              /\ eq(items[last'.ty].owner, Current(last'.c))
              /\ items'[last'.ty] = Absent
              /\ \A u \in Types \ {last'.ty} : items'[u] = items[u]
        /\ \A u \in Types : items[u].st = "Filled" => items'[u] = items[u] ]_vars

\* C35 witness: an init or obtain of "E" has returned Err after its
\* constructor obtained "A" and its hook inserted "F": the slot of "E" is
\* gone, the two others are Filled.
C35_Witness ==
    /\ last.ret = "Err" /\ last.ty = "E" /\ last.seen # <<>>
    /\ items["E"] = Absent
    /\ items["A"] = Filled(Made(1))
    /\ items["F"].st = "Filled" /\ items["F"].val.by = last.c

====
